---- MODULE Spec2Model ----
(***************************************************************************)
(* The AMP tutorial notebook amp_cn.ipynb as a state machine.  The code     *)
(* cells that define helpers, the network and the training parameters      *)
(* have run (that is Init); the four training cells (baseline, AMP-O1,     *)
(* AMP-O2, gradient accumulation) run one statement per action.            *)
(* SpecNet steps SimpleNet.forward alone over small layer sizes.           *)
(***************************************************************************)
EXTENDS Integers, Sequences, FiniteSets, TLC

VARIABLES
    cell,        \* code cell being executed: baseline, O1, O2, accum, end, error
    pc,          \* statement of that cell about to execute
    epoch_it,    \* values already yielded by range(epochs)
    epoch,       \* loop variable epoch
    datas,       \* position of the zip(train_data, labels) iterator
    enum_it,     \* counter of the enumerate(datas) iterator
    i,           \* loop variable i
    data,        \* index in train_data of the loop variable data
    label,       \* index in labels of the loop variable label
    model,       \* <<>> or <<the SimpleNet instance>>
    optimizer,   \* <<>> or <<the SGD instance>>
    scaler,      \* <<>> or <<the GradScaler instance>>
    amp,         \* level of the active auto_cast scope, "off" outside of one
    output,      \* <<>> or <<result of model(data)>>
    loss,        \* <<>> or <<result of mse(output, label)>>
    scaled,      \* <<>> or <<result of scaler.scale(loss)>>
    grad,        \* batches whose backward pass is accumulated in the parameters' gradients
    start_time,  \* <<>> (None) or <<clock reading in ms>>
    now,         \* wall clock in ms
    stdout,      \* lines printed so far
    hist,        \* history of the calls made (not program state)
    net,         \* SpecNet: the SimpleNet under test
    x,           \* SpecNet: local variable x of forward
    fpc,         \* SpecNet: statement of forward about to execute
    ret          \* SpecNet: <<>> or <<value returned by forward>>

ctl    == <<cell, pc>>
loopv  == <<epoch_it, epoch, datas, enum_it, i, data, label>>
objs   == <<model, optimizer, scaler>>
tens   == <<output, loss, scaled>>
timev  == <<start_time, now>>
netv   == <<net, x, fpc, ret>>
vars   == <<cell, pc, epoch_it, epoch, datas, enum_it, i, data, label, model,
            optimizer, scaler, amp, output, loss, scaled, grad, start_time,
            now, stdout, hist, net, x, fpc, ret>>

(***************************************************************************)
(* Training parameters (the parameter cell).                               *)
(***************************************************************************)
epochs == 5
input_size == 4096
output_size == 4096
batch_size == 512
nums_batch == 50
accumulate_batchs_num == 10

(* Times printed by the recorded run of each cell, in ms. *)
RecordedBaseline == 2926
RecordedO1 == 1294
RecordedO2 == 890
RecordedAccum == 1026

(* Figures quoted by the summary cell: times in ms, speedups in tenths. *)
SummaryBaseline == 2926
SummaryO1 == 1294
SummaryO2 == 890
SummarySpeedupO1 == 21
SummarySpeedupO2 == 30

(* Bounds of SpecNet. *)
MaxSize == 4
MaxBatch == 2

(***************************************************************************)
(* Tensors and SimpleNet.                                                  *)
(***************************************************************************)
Tensor(rows, cols, k) ==
    [shape |-> <<rows, cols>>, ops |-> <<>>, raised |-> FALSE, src |-> k]

\* train_data[k] and labels[k]
TrainData(k) == Tensor(batch_size, input_size, k)
Labels(k) == Tensor(batch_size, output_size, k)

\* nn.Linear(n_in, n_out)
NewLinear(n_in, n_out) == [in |-> n_in, out |-> n_out]

\* Variant: linear2 and linear3 take the width linear1 produces.
SimpleNetChained(n_in, n_out) ==
    [linear1 |-> NewLinear(n_in, n_out),
     linear2 |-> NewLinear(n_out, n_out),
     linear3 |-> NewLinear(n_out, n_out)]

\* SimpleNet.__init__
SimpleNet(n_in, n_out) ==
    [linear1 |-> NewLinear(n_in, n_out),
     linear2 |-> NewLinear(n_in, n_out),
     linear3 |-> NewLinear(n_in, n_out)]

\* Calling a Linear layer: x @ W + b with W of shape (in, out).
Linear(name, layer, t) ==
    IF t.raised THEN t
    ELSE IF t.shape[2] = layer.in
    THEN [t EXCEPT !.shape = <<t.shape[1], layer.out>>, !.ops = Append(@, name)]
    ELSE [t EXCEPT !.raised = TRUE]

\* Calling a ReLU layer: elementwise, shape kept.
ReLU(name, t) ==
    IF t.raised THEN t ELSE [t EXCEPT !.ops = Append(@, name)]

\* SimpleNet.forward
Forward(n, t) ==
    LET x1 == Linear("linear1", n.linear1, t)
        x2 == ReLU("relu1", x1)
        x3 == Linear("linear2", n.linear2, x2)
        x4 == ReLU("relu2", x3)
        x5 == Linear("linear3", n.linear3, x4)
    IN  x5

\* paddle.nn.MSELoss on (output, label): the shapes must agree.
MseOk(out, lab) == ~out.raised /\ out.shape = lab.shape

(***************************************************************************)
(* Statements shared by the training cells.  c is the cell, l the label of *)
(* the statement and to the label of the statement that follows it.        *)
(***************************************************************************)
Stmt(c, l, to) == cell = c /\ pc = l /\ cell' = c /\ pc' = to

\* An uncaught exception ends the execution of the notebook.
Raise(c, l) == cell = c /\ pc = l /\ cell' = "error" /\ pc' = l

Call(h, name) == [h EXCEPT !.calls = Append(@, name)]
Step(h, name) == [h EXCEPT !.steps = Append(@, name)]

\* auto_cast() without arguments runs the level the notebook names for it.
DefaultLevel == "O1"

Elapsed == {RecordedBaseline, RecordedO1, RecordedO2, RecordedAccum}

\* "{:.3f}".format(seconds), the clock being in ms
Format3f(ms) == <<ms \div 1000, ms % 1000>>

\* model = SimpleNet(input_size, output_size)
NewModel(c, l, to) ==
    /\ Stmt(c, l, to)
    /\ model' = <<[owner |-> c, layers |-> SimpleNet(input_size, output_size),
                   dtype |-> "float32"]>>
    /\ grad' = <<>>
    /\ hist' = [hist EXCEPT !.calls = <<"SimpleNet">>, !.steps = <<>>,
                            !.seen = <<>>, !.iters = 0, !.backwards = 0,
                            !.updates = 0, !.epoch_updates = 0,
                            !.applied = <<>>, !.bwd_on = <<>>]
    /\ UNCHANGED <<loopv, optimizer, scaler, amp, tens, timev, stdout, netv>>

\* optimizer = paddle.optimizer.SGD(learning_rate=0.0001, parameters=model.parameters())
NewOptimizer(c, l, to) ==
    /\ Stmt(c, l, to)
    /\ optimizer' = <<[owner |-> c, parameters |-> model[1].owner]>>
    /\ hist' = Call(hist, "SGD")
    /\ UNCHANGED <<loopv, model, scaler, amp, tens, grad, timev, stdout, netv>>

\* scaler = paddle.amp.GradScaler(init_loss_scaling=1024)
NewScaler(c, l, to) ==
    /\ Stmt(c, l, to)
    /\ scaler' = <<[owner |-> c, init_loss_scaling |-> 1024]>>
    /\ hist' = Call(hist, "GradScaler")
    /\ UNCHANGED <<loopv, model, optimizer, amp, tens, grad, timev, stdout, netv>>

\* model, optimizer = paddle.amp.decorate(models=model, optimizers=optimizer, level=level, ...)
Decorate(c, l, to, level) ==
    /\ Stmt(c, l, to)
    /\ model' = IF level = "O2" THEN <<[model[1] EXCEPT !.dtype = "float16"]>>
                ELSE model
    /\ hist' = Call(hist, "decorate")
    /\ UNCHANGED <<loopv, optimizer, scaler, amp, tens, grad, timev, stdout, netv>>

\* Variant: start_timer without "global start_time" binds a local.
StartTimerLocal(c, l, to) ==
    /\ Stmt(c, l, to)
    /\ hist' = [Call(hist, "start_timer") EXCEPT !.started_by = c]
    /\ UNCHANGED <<loopv, objs, amp, tens, grad, timev, stdout, netv>>

\* start_timer()
StartTimer(c, l, to) ==
    /\ Stmt(c, l, to)
    /\ start_time' = <<now>>
    /\ hist' = [Call(hist, "start_timer") EXCEPT !.started_by = c]
    /\ UNCHANGED <<loopv, objs, amp, tens, grad, now, stdout, netv>>

\* for epoch in range(epochs): the range iterator is created
ForEpoch(c, l, to) ==
    /\ Stmt(c, l, to)
    /\ epoch_it' = 0
    /\ UNCHANGED <<epoch, datas, enum_it, i, data, label, objs, amp, tens,
                   grad, timev, stdout, hist, netv>>

\* for epoch in range(epochs): the next value, or the end of the loop
NextEpoch(c, l, body, exit) ==
    /\ cell = c /\ pc = l /\ cell' = c
    /\ IF epoch_it < epochs
       THEN epoch' = epoch_it /\ epoch_it' = epoch_it + 1 /\ pc' = body
       ELSE UNCHANGED <<epoch, epoch_it>> /\ pc' = exit
    /\ UNCHANGED <<datas, enum_it, i, data, label, objs, amp, tens, grad,
                   timev, stdout, hist, netv>>

\* Variant: the zip iterator of the first epoch is kept for the later ones.
ZipNotRebuilt(c, l, to) ==
    /\ Stmt(c, l, to)
    /\ datas' = IF epoch = 0 THEN 0 ELSE datas
    /\ hist' = [hist EXCEPT !.seen = <<>>, !.epoch_updates = 0]
    /\ UNCHANGED <<epoch_it, epoch, enum_it, i, data, label, objs, amp, tens,
                   grad, timev, stdout, netv>>

\* datas = zip(train_data, labels)
Zip(c, l, to) ==
    /\ Stmt(c, l, to)
    /\ datas' = 0
    /\ hist' = [hist EXCEPT !.seen = <<>>, !.epoch_updates = 0]
    /\ UNCHANGED <<epoch_it, epoch, enum_it, i, data, label, objs, amp, tens,
                   grad, timev, stdout, netv>>

\* Variant: a batch counter that runs on across the epochs.
ForBatchKeepsCounter(c, l, to) ==
    /\ Stmt(c, l, to)
    /\ enum_it' = IF epoch = 0 THEN 0 ELSE enum_it
    /\ UNCHANGED <<epoch_it, epoch, datas, i, data, label, objs, amp, tens,
                   grad, timev, stdout, hist, netv>>

\* for i, (data, label) in enumerate(datas): the enumerate iterator is created
ForBatch(c, l, to) ==
    /\ Stmt(c, l, to)
    /\ enum_it' = 0
    /\ UNCHANGED <<epoch_it, epoch, datas, i, data, label, objs, amp, tens,
                   grad, timev, stdout, hist, netv>>

\* for i, (data, label) in enumerate(datas): the next item, or the end of the loop
NextBatch(c, l, body, exit) ==
    /\ cell = c /\ pc = l /\ cell' = c
    /\ IF datas < nums_batch
       THEN /\ i' = enum_it /\ data' = datas /\ label' = datas
            /\ enum_it' = enum_it + 1 /\ datas' = datas + 1
            /\ hist' = [hist EXCEPT !.steps = <<>>, !.seen = Append(@, datas),
                                    !.iters = @ + 1]
            /\ pc' = body
       ELSE /\ UNCHANGED <<i, data, label, enum_it, datas, hist>>
            /\ pc' = exit
    /\ UNCHANGED <<epoch_it, epoch, objs, amp, tens, grad, timev, stdout, netv>>

\* with paddle.amp.auto_cast(level=level): the scope is entered
EnterAutoCast(c, l, to, level) ==
    /\ Stmt(c, l, to)
    /\ amp' = level
    /\ hist' = Step(hist, "auto_cast")
    /\ UNCHANGED <<loopv, objs, tens, grad, timev, stdout, netv>>

\* the end of the with block: the scope is left
ExitAutoCast(c, l, to) ==
    /\ Stmt(c, l, to)
    /\ amp' = "off"
    /\ hist' = Step(hist, "exit")
    /\ UNCHANGED <<loopv, objs, tens, grad, timev, stdout, netv>>

\* output = model(data)
CallModel(c, l, to) ==
    /\ cell = c /\ pc = l
    /\ LET out == Forward(model[1].layers, TrainData(data))
       IN  /\ IF out.raised THEN Raise(c, l) ELSE Stmt(c, l, to)
           /\ output' = <<[t |-> out, amp |-> amp, dtype |-> model[1].dtype]>>
    /\ hist' = Step(hist, "forward")
    /\ UNCHANGED <<loopv, objs, amp, loss, scaled, grad, timev, stdout, netv>>

\* loss = mse(output, label)
CallMse(c, l, to) ==
    /\ cell = c /\ pc = l
    /\ IF MseOk(output[1].t, Labels(label))
       THEN /\ Stmt(c, l, to)
            /\ loss' = <<[kind |-> "loss", src |-> output[1].t.src,
                          amp |-> amp, scaler |-> "none"]>>
            /\ hist' = Step(hist, "mse")
       ELSE /\ Raise(c, l)
            /\ UNCHANGED <<loss, hist>>
    /\ UNCHANGED <<loopv, objs, amp, output, scaled, grad, timev, stdout, netv>>

\* scaled = scaler.scale(loss)
Scale(c, l, to) ==
    /\ cell = c /\ pc = l
    /\ IF scaler = <<>>
       THEN /\ Raise(c, l)
            /\ UNCHANGED <<scaled, hist>>
       ELSE /\ Stmt(c, l, to)
            /\ scaled' = <<[loss[1] EXCEPT !.kind = "scaled",
                                           !.scaler = scaler[1].owner]>>
            /\ hist' = Step(hist, "scale")
    /\ UNCHANGED <<loopv, objs, amp, output, loss, grad, timev, stdout, netv>>

\* t.backward(): the gradient of t is added to the parameters' gradients
Backward(c, l, to, t) ==
    /\ Stmt(c, l, to)
    /\ grad' = Append(grad, t[1].src)
    /\ hist' = [Step(hist, "backward") EXCEPT !.bwd_on = t, !.backwards = @ + 1]
    /\ UNCHANGED <<loopv, objs, amp, tens, timev, stdout, netv>>

\* the parameters are updated with the gradients accumulated so far
Update(h, name) ==
    [Step(h, name) EXCEPT !.applied = grad, !.updates = @ + 1,
                          !.epoch_updates = @ + 1]

\* optimizer.step()
OptimizerStep(c, l, to) ==
    /\ Stmt(c, l, to)
    /\ hist' = Update(hist, "step")
    /\ UNCHANGED <<loopv, objs, amp, tens, grad, timev, stdout, netv>>

\* scaler.minimize(optimizer, scaled)
Minimize(c, l, to) ==
    /\ cell = c /\ pc = l
    /\ IF scaler = <<>>
       THEN Raise(c, l) /\ UNCHANGED hist
       ELSE Stmt(c, l, to) /\ hist' = Update(hist, "minimize")
    /\ UNCHANGED <<loopv, objs, amp, tens, grad, timev, stdout, netv>>

\* Variant: the gradients are not cleared after the update.
ClearGradMissing(c, l, to) ==
    /\ Stmt(c, l, to)
    /\ hist' = Step(hist, "clear_grad")
    /\ UNCHANGED <<loopv, objs, amp, tens, grad, timev, stdout, netv>>

\* optimizer.clear_grad()
ClearGrad(c, l, to) ==
    /\ Stmt(c, l, to)
    /\ grad' = <<>>
    /\ hist' = Step(hist, "clear_grad")
    /\ UNCHANGED <<loopv, objs, amp, tens, timev, stdout, netv>>

\* Variant: the test on i instead of i + 1.
IfAccumulatedOffByOne(c, l, then, else) ==
    /\ cell = c /\ pc = l /\ cell' = c
    /\ pc' = IF i % accumulate_batchs_num = 0 THEN then ELSE else
    /\ UNCHANGED <<loopv, objs, amp, tens, grad, timev, stdout, hist, netv>>

\* if (i + 1) % accumulate_batchs_num == 0:
IfAccumulated(c, l, then, else) ==
    /\ cell = c /\ pc = l /\ cell' = c
    /\ pc' = IF (i + 1) % accumulate_batchs_num = 0 THEN then ELSE else
    /\ UNCHANGED <<loopv, objs, amp, tens, grad, timev, stdout, hist, netv>>

\* print(loss)
PrintLoss(c, l, to) ==
    /\ Stmt(c, l, to)
    /\ stdout' = Append(stdout, [cell |-> c, kind |-> loss[1].kind,
                                 val |-> <<loss[1].src>>])
    /\ hist' = Call(hist, "print")
    /\ UNCHANGED <<loopv, objs, amp, tens, grad, timev, netv>>

\* end_timer_and_print(msg); the cell that follows then starts
EndTimerAndPrint(c, l, nextcell, nextpc) ==
    /\ cell = c /\ pc = l
    /\ \E d \in Elapsed : now' = now + d
    /\ hist' = [Call(hist, "end_timer_and_print") EXCEPT
                    !.finished = Append(@, c)]
    /\ IF start_time = <<>>
       THEN /\ cell' = "error" /\ pc' = l
            /\ stdout' = Append(stdout, [cell |-> c, kind |-> "msg", val |-> <<>>])
       ELSE /\ cell' = nextcell /\ pc' = nextpc
            /\ stdout' = stdout \o
                 <<[cell |-> c, kind |-> "msg", val |-> <<>>],
                   [cell |-> c, kind |-> "time",
                    val |-> Format3f(now' - start_time[1])]>>
    /\ UNCHANGED <<loopv, objs, amp, tens, grad, start_time, netv>>

(***************************************************************************)
(* The baseline cell (3.3).                                                *)
(***************************************************************************)
B_Model      == NewModel("baseline", "model", "optimizer")
B_Optimizer  == NewOptimizer("baseline", "optimizer", "start_timer")
B_StartTimer == StartTimer("baseline", "start_timer", "for_epoch")
B_ForEpoch   == ForEpoch("baseline", "for_epoch", "next_epoch")
B_NextEpoch  == NextEpoch("baseline", "next_epoch", "zip", "print")
B_Zip        == Zip("baseline", "zip", "for_batch")
B_ForBatch   == ForBatch("baseline", "for_batch", "next_batch")
B_NextBatch  == NextBatch("baseline", "next_batch", "forward", "next_epoch")
B_Forward    == CallModel("baseline", "forward", "mse")
B_Loss       == CallMse("baseline", "mse", "backward")
B_Backward   == Backward("baseline", "backward", "update", loss)
B_Step       == OptimizerStep("baseline", "update", "clear_grad")
B_ClearGrad  == ClearGrad("baseline", "clear_grad", "next_batch")
B_Print      == PrintLoss("baseline", "print", "end_timer")
B_EndTimer   == EndTimerAndPrint("baseline", "end_timer", "O1", "model")

(***************************************************************************)
(* The AMP-O1 cell (3.4, level O1).                                        *)
(***************************************************************************)
O1_Model      == NewModel("O1", "model", "optimizer")
O1_Optimizer  == NewOptimizer("O1", "optimizer", "scaler")
O1_Scaler     == NewScaler("O1", "scaler", "start_timer")
O1_StartTimer == StartTimer("O1", "start_timer", "for_epoch")
O1_ForEpoch   == ForEpoch("O1", "for_epoch", "next_epoch")
O1_NextEpoch  == NextEpoch("O1", "next_epoch", "zip", "print")
O1_Zip        == Zip("O1", "zip", "for_batch")
O1_ForBatch   == ForBatch("O1", "for_batch", "next_batch")
O1_NextBatch  == NextBatch("O1", "next_batch", "enter", "next_epoch")
O1_AutoCast   == EnterAutoCast("O1", "enter", "forward", DefaultLevel)
O1_Forward    == CallModel("O1", "forward", "mse")
O1_Loss       == CallMse("O1", "mse", "exit")
O1_Exit       == ExitAutoCast("O1", "exit", "scale")
O1_Scale      == Scale("O1", "scale", "backward")
\* Variant: backward on the unscaled loss.
O1_BackwardUnscaled == Backward("O1", "backward", "update", loss)
O1_Backward   == Backward("O1", "backward", "update", scaled)
O1_Minimize   == Minimize("O1", "update", "clear_grad")
O1_ClearGrad  == ClearGrad("O1", "clear_grad", "next_batch")
O1_Print      == PrintLoss("O1", "print", "end_timer")
O1_EndTimer   == EndTimerAndPrint("O1", "end_timer", "O2", "model")

(***************************************************************************)
(* The AMP-O2 cell (3.4, level O2).                                        *)
(***************************************************************************)
O2_Model      == NewModel("O2", "model", "optimizer")
O2_Optimizer  == NewOptimizer("O2", "optimizer", "scaler")
O2_Scaler     == NewScaler("O2", "scaler", "decorate")
\* Variant: decorate with the level of the other cell.
O2_DecorateO1 == Decorate("O2", "decorate", "start_timer", "O1")
O2_Decorate   == Decorate("O2", "decorate", "start_timer", "O2")
O2_StartTimer == StartTimer("O2", "start_timer", "for_epoch")
O2_ForEpoch   == ForEpoch("O2", "for_epoch", "next_epoch")
O2_NextEpoch  == NextEpoch("O2", "next_epoch", "zip", "print")
O2_Zip        == Zip("O2", "zip", "for_batch")
O2_ForBatch   == ForBatch("O2", "for_batch", "next_batch")
O2_NextBatch  == NextBatch("O2", "next_batch", "enter", "next_epoch")
O2_AutoCast   == EnterAutoCast("O2", "enter", "forward", "O2")
O2_Forward    == CallModel("O2", "forward", "mse")
O2_Loss       == CallMse("O2", "mse", "exit")
O2_Exit       == ExitAutoCast("O2", "exit", "scale")
O2_Scale      == Scale("O2", "scale", "backward")
O2_Backward   == Backward("O2", "backward", "update", scaled)
O2_Minimize   == Minimize("O2", "update", "clear_grad")
O2_ClearGrad  == ClearGrad("O2", "clear_grad", "next_batch")
O2_Print      == PrintLoss("O2", "print", "end_timer")
O2_EndTimer   == EndTimerAndPrint("O2", "end_timer", "accum", "model")

(***************************************************************************)
(* The gradient-accumulation cell (4.1).                                   *)
(***************************************************************************)
GA_Model      == NewModel("accum", "model", "optimizer")
GA_Optimizer  == NewOptimizer("accum", "optimizer", "scaler")
GA_Scaler     == NewScaler("accum", "scaler", "start_timer")
GA_StartTimer == StartTimer("accum", "start_timer", "for_epoch")
GA_ForEpoch   == ForEpoch("accum", "for_epoch", "next_epoch")
GA_NextEpoch  == NextEpoch("accum", "next_epoch", "zip", "print")
GA_Zip        == Zip("accum", "zip", "for_batch")
GA_ForBatch   == ForBatch("accum", "for_batch", "next_batch")
GA_NextBatch  == NextBatch("accum", "next_batch", "enter", "next_epoch")
GA_AutoCast   == EnterAutoCast("accum", "enter", "forward", DefaultLevel)
GA_Forward    == CallModel("accum", "forward", "mse")
GA_Loss       == CallMse("accum", "mse", "exit")
GA_Exit       == ExitAutoCast("accum", "exit", "scale")
GA_Scale      == Scale("accum", "scale", "backward")
GA_Backward   == Backward("accum", "backward", "if", scaled)
GA_If         == IfAccumulated("accum", "if", "update", "next_batch")
GA_Minimize   == Minimize("accum", "update", "clear_grad")
GA_ClearGrad  == ClearGrad("accum", "clear_grad", "next_batch")
GA_Print      == PrintLoss("accum", "print", "end_timer")
GA_EndTimer   == EndTimerAndPrint("accum", "end_timer", "end", "end")

(***************************************************************************)
(* The notebook: the state after the helper, network and parameter cells,  *)
(* then the four training cells in order.                                  *)
(***************************************************************************)
NoHistory ==
    [calls |-> <<>>, steps |-> <<>>, seen |-> <<>>, iters |-> 0,
     backwards |-> 0, updates |-> 0, epoch_updates |-> 0, applied |-> <<>>,
     bwd_on |-> <<>>, started_by |-> "none", finished |-> <<>>]

InitNotebook ==
    /\ cell = "baseline" /\ pc = "model"
    /\ epoch_it = 0 /\ epoch = 0 /\ datas = 0 /\ enum_it = 0
    /\ i = 0 /\ data = 0 /\ label = 0
    /\ model = <<>> /\ optimizer = <<>> /\ scaler = <<>>
    /\ amp = "off"
    /\ output = <<>> /\ loss = <<>> /\ scaled = <<>>
    /\ grad = <<>>
    /\ start_time = <<>> /\ now = 0
    /\ stdout = <<>>
    /\ hist = NoHistory

Init ==
    /\ InitNotebook
    /\ net = SimpleNet(input_size, output_size)
    /\ x = TrainData(0)
    /\ fpc = "idle"
    /\ ret = <<>>

Baseline ==
    \/ B_Model \/ B_Optimizer \/ B_StartTimer \/ B_ForEpoch \/ B_NextEpoch
    \/ B_Zip \/ B_ForBatch \/ B_NextBatch \/ B_Forward \/ B_Loss
    \/ B_Backward \/ B_Step \/ B_ClearGrad \/ B_Print \/ B_EndTimer

AmpO1 ==
    \/ O1_Model \/ O1_Optimizer \/ O1_Scaler \/ O1_StartTimer \/ O1_ForEpoch
    \/ O1_NextEpoch \/ O1_Zip \/ O1_ForBatch \/ O1_NextBatch \/ O1_AutoCast
    \/ O1_Forward \/ O1_Loss \/ O1_Exit \/ O1_Scale \/ O1_Backward
    \/ O1_Minimize \/ O1_ClearGrad \/ O1_Print \/ O1_EndTimer

AmpO2 ==
    \/ O2_Model \/ O2_Optimizer \/ O2_Scaler \/ O2_Decorate \/ O2_StartTimer
    \/ O2_ForEpoch \/ O2_NextEpoch \/ O2_Zip \/ O2_ForBatch \/ O2_NextBatch
    \/ O2_AutoCast \/ O2_Forward \/ O2_Loss \/ O2_Exit \/ O2_Scale
    \/ O2_Backward \/ O2_Minimize \/ O2_ClearGrad \/ O2_Print \/ O2_EndTimer

Accumulate ==
    \/ GA_Model \/ GA_Optimizer \/ GA_Scaler \/ GA_StartTimer \/ GA_ForEpoch
    \/ GA_NextEpoch \/ GA_Zip \/ GA_ForBatch \/ GA_NextBatch \/ GA_AutoCast
    \/ GA_Forward \/ GA_Loss \/ GA_Exit \/ GA_Scale \/ GA_Backward \/ GA_If
    \/ GA_Minimize \/ GA_ClearGrad \/ GA_Print \/ GA_EndTimer

Next == Baseline \/ AmpO1 \/ AmpO2 \/ Accumulate

Spec == Init /\ [][Next]_vars

(***************************************************************************)
(* SimpleNet.forward, one statement per action, on a (batch, input_size)   *)
(* input of a SimpleNet(input_size, output_size).                          *)
(***************************************************************************)
ForwardStmt(l, to, y) ==
    /\ fpc = l
    /\ x' = y
    /\ fpc' = IF y.raised THEN "raised" ELSE to
    /\ UNCHANGED <<ctl, loopv, objs, amp, tens, grad, timev, stdout, hist, net, ret>>

F_Linear1 == ForwardStmt("linear1", "relu1", Linear("linear1", net.linear1, x))
F_Relu1   == ForwardStmt("relu1", "linear2", ReLU("relu1", x))
F_Linear2 == ForwardStmt("linear2", "relu2", Linear("linear2", net.linear2, x))
\* Variant: relu1 applied a second time in place of relu2.
F_Relu2AsRelu1 == ForwardStmt("relu2", "linear3", ReLU("relu1", x))
F_Relu2   == ForwardStmt("relu2", "linear3", ReLU("relu2", x))
F_Linear3 == ForwardStmt("linear3", "return", Linear("linear3", net.linear3, x))

F_Return ==
    /\ fpc = "return"
    /\ ret' = <<x>>
    /\ fpc' = "done"
    /\ UNCHANGED <<ctl, loopv, objs, amp, tens, grad, timev, stdout, hist, net, x>>

InitNet ==
    /\ InitNotebook
    /\ \E n_in \in 1..MaxSize, n_out \in 1..MaxSize, rows \in 1..MaxBatch :
          /\ net = SimpleNet(n_in, n_out)
          /\ x = Tensor(rows, n_in, 0)
    /\ fpc = "linear1"
    /\ ret = <<>>

NextNet ==
    \/ F_Linear1 \/ F_Relu1 \/ F_Linear2 \/ F_Relu2 \/ F_Linear3 \/ F_Return

SpecNet == InitNet /\ [][NextNet]_vars

(***************************************************************************)
(* Vocabulary of the properties.                                           *)
(***************************************************************************)
IsPrefix(s, t) == Len(s) <= Len(t) /\ \A k \in 1..Len(s) : s[k] = t[k]
Count(s, e) == Cardinality({k \in 1..Len(s) : s[k] = e})
Has(s, e) == \E k \in 1..Len(s) : s[k] = e
Last(s) == s[Len(s)]
Consecutive(s) == \A k \in 1..(Len(s) - 1) : s[k + 1] = s[k] + 1
UpTo(n) == [k \in 1..n |-> k - 1]

\* hist describes cell c: c is running past its first statement, or c has
\* just ended and the next cell has not yet executed a statement.
Running(c) == cell = c /\ pc # "model"
Finished(c) ==
    /\ cell \in {"O1", "O2", "accum", "end"} /\ pc \in {"model", "end"}
    /\ hist.finished # <<>> /\ Last(hist.finished) = c
About(c) == Running(c) \/ Finished(c)
LoopDone(c) == (Running(c) /\ pc \in {"print", "end_timer"}) \/ Finished(c)
\* cell c is inside the body of its inner loop
InBody(c) ==
    Running(c) /\ pc \in {"enter", "forward", "mse", "exit", "scale",
                          "backward", "if", "update", "clear_grad"}
\* an epoch of cell c has just ended
EpochEnd(c) == Running(c) /\ pc = "next_epoch" /\ epoch_it > 0
\* an iteration of cell c has just ended
IterEnd(c) == Running(c) /\ pc = "next_batch" /\ enum_it > 0

AmpSteps(update) ==
    <<"auto_cast", "forward", "mse", "exit", "scale", "backward", update, "clear_grad">>
AccumSkip == <<"auto_cast", "forward", "mse", "exit", "scale", "backward">>
BaselineSteps == <<"forward", "mse", "backward", "step", "clear_grad">>
Cells == <<"baseline", "O1", "O2", "accum">>

\* C1: in the gradient-accumulation loop minimize and clear_grad are called
\* only in iterations with (i + 1) % accumulate_batchs_num = 0, backward is
\* called in every iteration, clear_grad only follows minimize, and every
\* update is applied to the gradients of exactly accumulate_batchs_num
\* consecutive backward passes.
C1_AccumulatedUpdates ==
    About("accum") =>
        /\ (Has(hist.steps, "minimize") \/ Has(hist.steps, "clear_grad")
               \/ pc \in {"update", "clear_grad"})
              => (i + 1) % accumulate_batchs_num = 0
        /\ IsPrefix(hist.steps, AmpSteps("minimize"))
        /\ IterEnd("accum") =>
              /\ Has(hist.steps, "backward")
              /\ hist.backwards = hist.iters
              /\ hist.steps = IF (i + 1) % accumulate_batchs_num = 0
                              THEN AmpSteps("minimize") ELSE AccumSkip
        /\ hist.applied # <<>> =>
              /\ Len(hist.applied) = accumulate_batchs_num
              /\ Len(hist.applied) = 10
              /\ Consecutive(hist.applied)
        /\ hist.updates * accumulate_batchs_num + Len(grad) = hist.backwards
              \/ (pc = "clear_grad" /\ Len(grad) = accumulate_batchs_num
                  /\ hist.updates * accumulate_batchs_num = hist.backwards)

C1_Witness ==
    /\ cell = "accum" /\ pc = "clear_grad" /\ epoch = 1
    /\ hist.updates = 7
    /\ hist.applied = <<10, 11, 12, 13, 14, 15, 16, 17, 18, 19>>

\* C2: in every iteration of the AMP-O1 and AMP-O2 loops the GradScaler is
\* the one created once before the loop, forward and loss are computed in
\* the auto_cast scope, the scope is left before scale, backward is invoked
\* on the scaled loss of that scaler, minimize follows backward and
\* clear_grad follows minimize.
C2_AmpStepOrder ==
    \A c \in {"O1", "O2"} :
        /\ About(c) =>
              /\ IsPrefix(hist.steps, AmpSteps("minimize"))
              /\ Has(hist.steps, "forward") => output[1].amp # "off"
              /\ Has(hist.steps, "mse") => loss[1].amp # "off"
              /\ hist.bwd_on # <<>> =>
                    /\ hist.bwd_on[1].kind = "scaled"
                    /\ hist.bwd_on[1].scaler = c
              /\ Has(hist.steps, "backward") =>
                    hist.bwd_on = scaled /\ scaled[1].src = data
        /\ (Running(c) /\ pc \notin {"optimizer", "scaler"} /\ hist.steps # <<>>) =>
              /\ Count(hist.calls, "GradScaler") = 1
              /\ scaler # <<>> /\ scaler[1].owner = c
        /\ (Running(c) /\ pc \in {"scale", "backward", "update", "clear_grad"}) =>
              amp = "off"
        /\ IterEnd(c) => hist.steps = AmpSteps("minimize")

C2_Witness ==
    /\ cell = "O2" /\ pc = "next_batch" /\ hist.iters = 3
    /\ hist.steps = AmpSteps("minimize")
    /\ hist.bwd_on = scaled

\* C3: decorate is never called in the O1 run and exactly once in the O2 run,
\* with level O2, after model, optimizer and scaler are created and before
\* start_timer and the first auto_cast scope; every auto_cast scope of the O2
\* run has level O2; the model never runs under level O2 undecorated.
C3_DecorateOnlyO2 ==
    /\ About("O1") => ~Has(hist.calls, "decorate")
    /\ About("O2") =>
          IsPrefix(hist.calls, <<"SimpleNet", "SGD", "GradScaler", "decorate",
                                 "start_timer", "print", "end_timer_and_print">>)
    /\ (Running("O2") /\ pc \notin {"optimizer", "scaler", "decorate"}) =>
          /\ Count(hist.calls, "decorate") = 1
          /\ model[1].dtype = "float16"
    /\ (Running("O2") /\ hist.iters > 0) => Has(hist.calls, "start_timer")
    /\ (Running("O2") /\ amp # "off") => amp = "O2"
    /\ (Running("O2") /\ Has(hist.steps, "forward")) => output[1].amp = "O2"
    /\ (amp = "O2" /\ cell # "error") => model[1].dtype = "float16"
    /\ (output # <<>> /\ output[1].amp = "O2") => output[1].dtype = "float16"

C3_Witness ==
    /\ cell = "O2" /\ pc = "mse" /\ hist.iters = 2
    /\ amp = "O2" /\ output[1].amp = "O2" /\ output[1].dtype = "float16"
    /\ Count(hist.calls, "decorate") = 1

\* C4: each run calls start_timer once before its first iteration and
\* end_timer_and_print once after its last one, no other run's start_timer
\* coming in between; start_time is not None when end_timer_and_print
\* subtracts it, and the time printed is measured from the run's own
\* start_timer.
C4_TimerPairs ==
    \A k \in 1..4 :
        LET c == Cells[k] IN
        /\ (Running(c) /\ (hist.iters > 0 \/ pc \in {"for_epoch", "next_epoch"})) =>
              /\ Count(hist.calls, "start_timer") = 1
              /\ ~Has(hist.calls, "end_timer_and_print")
              /\ start_time # <<>>
              /\ hist.started_by = c
        /\ (Running(c) /\ pc = "end_timer") =>
              /\ start_time # <<>>
              /\ hist.started_by = c
              /\ hist.iters = epochs * nums_batch
        /\ Finished(c) =>
              /\ Count(hist.calls, "start_timer") = 1
              /\ Count(hist.calls, "end_timer_and_print") = 1
              /\ Last(hist.calls) = "end_timer_and_print"
              /\ hist.started_by = c
              /\ start_time # <<>>
              /\ Last(stdout) = [cell |-> c, kind |-> "time",
                                 val |-> Format3f(now - start_time[1])]

C4_Witness ==
    /\ Finished("O2")
    /\ Len(stdout) = 9
    /\ start_time = <<RecordedBaseline + RecordedO1>>
    /\ Last(stdout).val = <<0, 890>>

\* C5: SimpleNet.forward applies linear1, relu1, linear2, relu2, linear3 in
\* that order, each once, and returns the output of linear3.
C5_ForwardOrder ==
    /\ IsPrefix(x.ops, <<"linear1", "relu1", "linear2", "relu2", "linear3">>)
    /\ fpc = "done" =>
          /\ ret = <<x>>
          /\ ret[1].ops = <<"linear1", "relu1", "linear2", "relu2", "linear3">>
          /\ Last(ret[1].ops) = "linear3"
          /\ ret[1].shape = <<x.shape[1], net.linear3.out>>
    /\ (fpc \notin {"done", "raised", "idle"}) => fpc = (<<"linear1", "relu1",
          "linear2", "relu2", "linear3", "return">>)[Len(x.ops) + 1]

C5_Witness ==
    /\ fpc = "done"
    /\ ret[1].ops = <<"linear1", "relu1", "linear2", "relu2", "linear3">>
    /\ ret[1].shape = <<2, 3>>

\* C6: the four runs execute in the order baseline, AMP-O1, AMP-O2, gradient
\* accumulation without an exception; each runs epochs * nums_batch (250)
\* inner iterations, every epoch visiting the nums_batch pairs once in index
\* order; after its loop a run prints the last loss, then its timing line.
C6_RunsEndToEnd ==
    /\ cell # "error"
    /\ cell # "end" => ENABLED Next
    /\ IsPrefix(hist.finished, Cells)
    /\ cell = "end" => hist.finished = Cells /\ Len(stdout) = 12
    /\ \A k \in 1..4 :
          LET c == Cells[k] IN
          /\ cell = c => Len(hist.finished) = k - 1
          /\ About(c) =>
                /\ hist.iters <= epochs * nums_batch
                /\ IsPrefix(hist.seen, UpTo(nums_batch))
          /\ InBody(c) =>
                /\ data = i /\ label = i
                /\ Last(hist.seen) = i
                /\ hist.iters = (epoch_it - 1) * nums_batch + i + 1
          /\ EpochEnd(c) =>
                /\ hist.seen = UpTo(nums_batch)
                /\ hist.iters = epoch_it * nums_batch
          /\ LoopDone(c) =>
                /\ hist.iters = epochs * nums_batch
                /\ hist.iters = 250
                /\ epoch_it = epochs
          /\ Finished(c) =>
                /\ Len(stdout) = 3 * k
                /\ stdout[3 * k - 2] = [cell |-> c, kind |-> "loss",
                                        val |-> <<nums_batch - 1>>]
                /\ stdout[3 * k - 1] = [cell |-> c, kind |-> "msg", val |-> <<>>]
                /\ stdout[3 * k].cell = c /\ stdout[3 * k].kind = "time"

C6_Witness ==
    /\ cell = "end"
    /\ hist.finished = Cells
    /\ hist.iters = 250
    /\ Len(stdout) = 12

\* The time line printed by cell c, <<>> before it is printed.
Printed(c) ==
    LET lines == {k \in 1..Len(stdout) : stdout[k].cell = c /\ stdout[k].kind = "time"}
    IN  IF lines = {} THEN <<>> ELSE stdout[CHOOSE k \in lines : TRUE].val

Ms(t) == t[1] * 1000 + t[2]
\* baseline / amp to one decimal place, in tenths: cut off, or rounded
SpeedupCut(base, t) == (10 * base) \div t
SpeedupRounded(base, t) == (20 * base + t) \div (2 * t)

\* The run the notebook records: the three times its cells printed.
RecordedRun ==
    /\ Printed("baseline") = Format3f(RecordedBaseline)
    /\ Printed("O1") = Format3f(RecordedO1)
    /\ Printed("O2") = Format3f(RecordedO2)

\* C7: for the recorded run the summary quotes the times the cells printed,
\* and the speedups it states (2.1 and 3.0) are baseline time over O1 time
\* and baseline time over O2 time to one decimal place.
C7_SummaryAgrees ==
    RecordedRun =>
        /\ Ms(Printed("baseline")) = SummaryBaseline
        /\ Ms(Printed("O1")) = SummaryO1
        /\ Ms(Printed("O2")) = SummaryO2
        /\ SummarySpeedupO1 \in
              {SpeedupCut(Ms(Printed("baseline")), Ms(Printed("O1"))),
               SpeedupRounded(Ms(Printed("baseline")), Ms(Printed("O1")))}
        /\ SummarySpeedupO2 \in
              {SpeedupCut(Ms(Printed("baseline")), Ms(Printed("O2"))),
               SpeedupRounded(Ms(Printed("baseline")), Ms(Printed("O2")))}

\* C8: in the baseline, AMP-O1 and AMP-O2 loops every iteration does one
\* backward pass, one update, then clear_grad: no gradient is pending when
\* an iteration starts, every update is applied to the gradient of one
\* batch, and a run makes as many updates as it processes batches (250).
C8_UpdateEveryBatch ==
    \A k \in 1..3 :
        LET c == Cells[k]
            all == IF c = "baseline" THEN BaselineSteps ELSE AmpSteps("minimize")
        IN
        /\ About(c) =>
              /\ IsPrefix(hist.steps, all)
              /\ hist.applied # <<>> => Len(hist.applied) = 1
              /\ Len(grad) <= 1
              /\ hist.updates <= hist.backwards /\ hist.backwards <= hist.iters
        /\ (Running(c) /\ pc \in {"next_batch", "enter", "forward", "mse",
                                  "exit", "scale", "backward"}) =>
              /\ grad = <<>>
              /\ hist.updates = hist.backwards
        /\ (Running(c) /\ pc = "update") => grad = <<data>>
        /\ IterEnd(c) =>
              /\ hist.steps = all
              /\ hist.applied = <<data>>
              /\ hist.updates = hist.iters
        /\ LoopDone(c) =>
              /\ hist.updates = epochs * nums_batch
              /\ hist.updates = 250
              /\ hist.backwards = 250
              /\ grad = <<>>

C8_Witness ==
    /\ Finished("O1")
    /\ hist.updates = 250 /\ hist.backwards = 250
    /\ hist.applied = <<49>>
    /\ grad = <<>>

\* C9: in the gradient-accumulation loop i restarts at 0 in every epoch and,
\* nums_batch (50) being a multiple of accumulate_batchs_num (10), no
\* gradient is left unapplied at the end of an epoch or of training: each
\* epoch makes nums_batch / accumulate_batchs_num (5) updates, the run 25.
C9_NothingLeftUnapplied ==
    /\ nums_batch > 0 /\ nums_batch % accumulate_batchs_num = 0
    /\ InBody("accum") =>
          /\ i = Len(hist.seen) - 1
          /\ i < nums_batch
          /\ Len(hist.seen) = 1 => i = 0
    /\ IterEnd("accum") =>
          /\ hist.epoch_updates = (i + 1) \div accumulate_batchs_num
          /\ Len(grad) = (i + 1) % accumulate_batchs_num
    /\ EpochEnd("accum") =>
          /\ grad = <<>>
          /\ hist.epoch_updates = nums_batch \div accumulate_batchs_num
          /\ hist.epoch_updates = 5
          /\ hist.updates = 5 * epoch_it
    /\ LoopDone("accum") =>
          /\ grad = <<>>
          /\ hist.updates = 25
          /\ hist.backwards = 250

C9_Witness ==
    /\ cell = "accum" /\ pc = "next_epoch" /\ epoch_it = 3
    /\ grad = <<>> /\ hist.epoch_updates = 5 /\ hist.updates = 15
    /\ i = 49

\* C10: every Linear of SimpleNet is Linear(input_size, output_size), so
\* forward on a (batch, input_size) input goes through, and returns a
\* (batch, output_size) output of the label's shape, exactly when
\* input_size = output_size; otherwise linear2 rejects its input.
C10_ShapesNeedEqualSizes ==
    LET n_in == net.linear1.in
        n_out == net.linear1.out
    IN
    /\ net.linear2 = [in |-> n_in, out |-> n_out]
    /\ net.linear3 = [in |-> n_in, out |-> n_out]
    /\ n_in = n_out => fpc # "raised"
    /\ n_in # n_out => fpc \notin {"relu2", "linear3", "return", "done"}
    /\ fpc = "raised" =>
          /\ n_in # n_out
          /\ x.raised /\ x.ops = <<"linear1", "relu1">>
          /\ x.shape[2] = n_out
    /\ fpc = "done" =>
          /\ n_in = n_out
          /\ ret[1].shape = <<x.shape[1], n_out>>
          /\ MseOk(ret[1], Tensor(x.shape[1], n_out, 0))
    /\ fpc = "idle" =>
          /\ input_size = output_size
          /\ ~Forward(net, x).raised
          /\ MseOk(Forward(net, x), Labels(0))

C10_Witness ==
    /\ fpc = "raised"
    /\ net.linear1 = [in |-> 3, out |-> 2]
    /\ x.raised /\ x.ops = <<"linear1", "relu1">>

====
